---- MODULE Spec2Model ----
(***************************************************************************)
(* Model of java-architect-skills:                                         *)
(*   - the PMD bootstrap pipeline (pmd-bootstrap.py): entry check,         *)
(*     ordered mirror download, extraction, verification, analysis,        *)
(*     violation reduction, results file, process exit code;               *)
(*   - the MCP request dispatcher (server.py): skill registry, request     *)
(*     handling, the synchronous subordinate pipeline run of tools/call.   *)
(* The file system (tools directory, staging archive, installed binary,    *)
(* results file) persists from one pipeline run to the next.               *)
(***************************************************************************)
EXTENDS Integers, Sequences, FiniteSets, TLC

VARIABLES
    \* ---- file system (persists across runs)
    toolsDir,       \* TOOLS_DIR exists
    zipFile,        \* staging archive TOOLS_DIR/pmd-<version>.zip
    pmdBin,         \* PMD_BIN, the installed binary
    resultsFile,    \* pmd-results.json in the working directory
    \* ---- the running (or last) pipeline process
    pc,             \* position of the process in main()
    argv,           \* sys.argv[1:] of the process
    exitCode,       \* exit status of the process, -1 while it runs
    stdout,         \* what the process printed on standard output (tags)
    stderr,         \* what the process printed on standard error (tags)
    \* ---- history of the current run and of the installed binary
    attempted,      \* URLs handed to download_file, in order
    extracted,      \* the archive handed to extract_pmd
    binAtEntry,     \* PMD_BIN existed when the process started
    entered,        \* stages the run has entered, in order
    binVerified,    \* the binary at PMD_BIN has passed verify_pmd
    stalled,        \* the process is inside a call that will never return
    pmdRun,         \* what the analyzer process of the run did, if started
    \* ---- the dispatcher process (server.py)
    srv,            \* "Down", "Listening", "Waiting" inside subprocess.run,
                    \* or "Crashed" when the constructor raised
    skillsDir,      \* the skills directory as the server finds it
    skills,         \* SkillRegistry.skills: the registered names, in order
    request,        \* the input line of the current (or last) cycle
    response,       \* what that cycle wrote on standard output
    completed,      \* the CompletedProcess of that cycle's subprocess.run
    spawned         \* a subordinate process was started in that cycle

pipeVars == <<toolsDir, zipFile, pmdBin, resultsFile, pc, argv, exitCode,
              stdout, stderr, attempted, extracted, binAtEntry, entered,
              binVerified, stalled, pmdRun>>

fsVars == <<toolsDir, zipFile, pmdBin, resultsFile>>

srvVars == <<srv, skillsDir, skills, request, response, completed, spawned>>

vars == <<pipeVars, srvVars>>

----------------------------------------------------------------------------
(* The last element of a sequence, and membership in a sequence.            *)
Last(seq) == seq[Len(seq)]
Has(seq, x) == \E i \in 1..Len(seq) : seq[i] = x

(* Python dict.get(key, default) on a dict modelled as a function.          *)
Get(d, k, default) == IF k \in DOMAIN d THEN d[k] ELSE default

(* The exit status of a process that has not ended is written -1.           *)

(* PMD_URLS, in list order: GitHub releases, SourceForge, Maven Central.    *)
PMD_URLS == <<"github", "sourceforge", "maven">>

(* What an URL can serve: an archive holding a working binary, one whose    *)
(* binary fails the version query, one without bin/pmd, and a file zipfile  *)
(* cannot read.                                                             *)
ArchiveKinds == {"good", "broken", "nobin", "corrupt"}

NoFile == [src |-> "none", content |-> "absent"]
Archive(url, kind) == [src |-> url, content |-> kind]
Exists(f) == f.content # "absent"

NoBin == [src |-> "none", content |-> "absent"]

NoResults == [exists |-> FALSE, content |-> <<>>]

(* Positional arguments a pipeline process can be started with: none, a     *)
(* target path, a target path and a rules file.                             *)
ProjPath == <<"/", "p", "r", "o", "j">>
RulesPath == <<"r", ".", "x", "m", "l">>
ArgvChoices == {<<>>, <<ProjPath>>, <<ProjPath, RulesPath>>}

----------------------------------------------------------------------------
(* Analyzer output.  A JSON document is [json, value]: "invalid" text that  *)
(* json.loads rejects, an "array", or an "object" whose value is the dict.  *)
(* A dict is a function from keys to values; a missing key is simply not in *)
(* its domain.                                                              *)
EmptyDict == [k \in {} |-> 0]

ViolationFull ==
    [beginline |-> 5, endline |-> 6, rule |-> "R1", ruleset |-> "Spring",
     priority |-> 1, description |-> "d1", externalInfoUrl |-> "u1"]
ViolationBare == [rule |-> "R2"]
ViolationNoLines == [rule |-> "R3", priority |-> 5, description |-> "d3"]

PmdDocs ==
    << [json |-> "invalid", value |-> EmptyDict],
       [json |-> "array",   value |-> EmptyDict],
       [json |-> "object",  value |-> EmptyDict],
       [json |-> "object",  value |-> [formatVersion |-> 0]],
       [json |-> "object",  value |-> [files |-> <<>>]],
       [json |-> "object",  value |->
           [files |-> << [filename |-> "A.java",
                          violations |-> <<ViolationFull, ViolationBare>>] >>]],
       [json |-> "object",  value |->
           [files |-> << [filename |-> "A.java",
                          violations |-> <<ViolationBare>>],
                         [violations |-> <<ViolationNoLines, ViolationFull>>],
                         [filename |-> "C.java"] >>]] >>

(* Exit codes of `pmd check`: 0 clean, 4 violations found, 1 and 5 errors.  *)
PmdExitCodes == {0, 1, 4, 5}

(* What subprocess.run of the analyzer can do: expire, raise, or end with   *)
(* an exit code and a standard output.                                      *)
PmdRuns ==
    {[kind |-> "timeout", rc |-> 0, doc |-> 1],
     [kind |-> "oserror", rc |-> 0, doc |-> 1]}
    \cup [kind : {"exit"}, rc : PmdExitCodes, doc : 1..Len(PmdDocs)]

(* No analyzer process was started (yet) in the run.                        *)
NoPmdRun == [kind |-> "none", rc |-> 0, doc |-> 1]

(* Return values of run_pmd_analysis: None, or a dict.                       *)
None == [none |-> TRUE, data |-> EmptyDict]
Some(d) == [none |-> FALSE, data |-> d]
Truthy(r) == ~r.none /\ DOMAIN r.data # {}

(* run_pmd_analysis with output_format = "json": the value returned and the *)
(* lines printed, given whether target and rules exist and what the         *)
(* analyzer process does.                                                   *)
run_pmd_analysis(targetExists, rulesExist, p) ==
    IF ~targetExists
    THEN [ret |-> None, out |-> <<>>, err |-> <<"Target path does not exist">>,
          invoked |-> FALSE]
    ELSE IF ~rulesExist
    THEN [ret |-> None, out |-> <<>>, err |-> <<"Rules file does not exist">>,
          invoked |-> FALSE]
    ELSE IF p.kind = "timeout"
    THEN [ret |-> None, out |-> <<>>, err |-> <<"PMD analysis timed out">>,
          invoked |-> TRUE]
    ELSE IF p.kind = "oserror"
    THEN [ret |-> None, out |-> <<>>, err |-> <<"Failed to run PMD">>,
          invoked |-> TRUE]
    ELSE IF p.rc \in {0, 4}
    THEN LET doc == PmdDocs[p.doc] IN
         CASE doc.json = "invalid" ->
                [ret |-> Some([raw |-> p.doc]),
                 out |-> <<"Could not parse JSON output">>, err |-> <<>>,
                 invoked |-> TRUE]
           [] doc.json = "array" ->   \* data.get raises AttributeError
                [ret |-> None, out |-> <<>>, err |-> <<"Failed to run PMD">>,
                 invoked |-> TRUE]
           [] OTHER ->
                [ret |-> Some(doc.value), out |-> <<"Analysis complete">>,
                 err |-> <<>>, invoked |-> TRUE]
    ELSE [ret |-> None, out |-> <<>>, err |-> <<"PMD exited with code">>,
          invoked |-> TRUE]

(* The inner loop with 0 as the default of every missing number, the        *)
(* priority included.                                                       *)
RECURSIVE SimplifyViolations_zero(_, _)
SimplifyViolations_zero(filename, vs) ==
    IF vs = <<>> THEN <<>>
    ELSE LET violation == Head(vs) IN
         << [file            |-> filename,
             line            |-> Get(violation, "beginline", 0),
             endLine         |-> Get(violation, "endline", 0),
             rule            |-> Get(violation, "rule", "unknown"),
             ruleSet         |-> Get(violation, "ruleset", "unknown"),
             priority        |-> Get(violation, "priority", 0),
             description     |-> Get(violation, "description", ""),
             externalInfoUrl |-> Get(violation, "externalInfoUrl", "")] >>
         \o SimplifyViolations_zero(filename, Tail(vs))

(* The inner loop of format_pmd_results: one record per violation of a file *)
RECURSIVE SimplifyViolations(_, _)
SimplifyViolations(filename, vs) ==
    IF vs = <<>> THEN <<>>
    ELSE LET violation == Head(vs) IN
         << [file            |-> filename,
             line            |-> Get(violation, "beginline", 0),
             endLine         |-> Get(violation, "endline", 0),
             rule            |-> Get(violation, "rule", "unknown"),
             ruleSet         |-> Get(violation, "ruleset", "unknown"),
             priority        |-> Get(violation, "priority", 3),
             description     |-> Get(violation, "description", ""),
             externalInfoUrl |-> Get(violation, "externalInfoUrl", "")] >>
         \o SimplifyViolations(filename, Tail(vs))

(* The outer loop of format_pmd_results *)
RECURSIVE SimplifyFiles(_)
SimplifyFiles(files) ==
    IF files = <<>> THEN <<>>
    ELSE LET file_entry == Head(files) IN
         SimplifyViolations(Get(file_entry, "filename", "unknown"),
                            Get(file_entry, "violations", <<>>))
         \o SimplifyFiles(Tail(files))

format_pmd_results(pmd_data) ==
    IF DOMAIN pmd_data = {} \/ "files" \notin DOMAIN pmd_data
    THEN <<>>
    ELSE SimplifyFiles(Get(pmd_data, "files", <<>>))

----------------------------------------------------------------------------
(* The provisioning pipeline, main() of pmd-bootstrap.py                    *)

Ended == pc \in {"NotRunning", "Exited", "Failed"}

(* check_pmd_installed: PMD_BIN.exists()                                    *)
check_pmd_installed_never == FALSE
check_pmd_installed == Exists(pmdBin)

(* main, lines 276-288: a process starts, makes the entry check and either  *)
(* goes on to the installation summary or enters download_pmd, which        *)
(* creates the tools directory first.                                       *)
main_entry(args) ==
    /\ Ended
    /\ argv' = args
    /\ exitCode' = -1
    /\ stderr' = <<>>
    /\ attempted' = <<>>
    /\ extracted' = NoFile
    /\ binAtEntry' = Exists(pmdBin)
    /\ pmdRun' = NoPmdRun
    /\ IF check_pmd_installed
       THEN /\ pc' = "Installed"
            /\ entered' = <<"Installed">>
            /\ stdout' = <<"already installed">>
            /\ toolsDir' = toolsDir
       ELSE /\ pc' = "Downloading"
            /\ entered' = <<"Absent", "Downloading">>
            /\ stdout' = <<"Looking for PMD">>
            /\ toolsDir' = TRUE
    /\ UNCHANGED <<zipFile, pmdBin, resultsFile, binVerified, stalled>>

(* The loop of download_pmd: the URL of the current iteration, and whether  *)
(* the iteration that just failed was the last one.                         *)
NextUrl_retry == PMD_URLS[IF attempted = <<>> THEN 1 ELSE Len(attempted)]
NextUrl == PMD_URLS[Len(attempted) + 1]
Exhausted_early(tried) == Len(tried) >= Len(PMD_URLS) - 1
Exhausted(tried) == Len(tried) = Len(PMD_URLS)

(* download_file: urlretrieve either writes the whole archive to the        *)
(* staging path, or raises, before it opened the staging file or after it   *)
(* wrote a part of it.                                                      *)
DownloadResults(url) ==
    {[ok |-> TRUE, file |-> Archive(url, kind)] : kind \in ArchiveKinds}
    \cup {[ok |-> FALSE, file |-> zipFile],
          [ok |-> FALSE, file |-> Archive(url, "partial")]}

(* One iteration of the loop of download_pmd, lines 106-114.                *)
download_pmd ==
    /\ pc = "Downloading"
    /\ ~stalled
    /\ LET url == NextUrl IN
       \E r \in DownloadResults(url) :
          /\ attempted' = Append(attempted, url)
          /\ zipFile' = r.file
          /\ IF r.ok
             THEN /\ pc' = "Extracting"
                  /\ entered' = Append(entered, "Extracting")
                  /\ stdout' = Append(stdout, "Successfully downloaded")
                  /\ UNCHANGED <<stderr, exitCode>>
             ELSE IF Exhausted(attempted')
             THEN /\ pc' = "Failed"
                  /\ entered' = Append(entered, "Failed")
                  /\ stdout' = stdout \o <<"Download failed", "Please manually download">>
                  /\ stderr' = Append(stderr, "All download mirrors failed")
                  /\ exitCode' = 1
             ELSE /\ stdout' = Append(stdout, "Download failed")
                  /\ UNCHANGED <<pc, entered, stderr, exitCode>>
    /\ UNCHANGED <<toolsDir, pmdBin, resultsFile, argv, extracted, binAtEntry,
                   binVerified, stalled, pmdRun>>

(* download_file, line 89: urlretrieve is called without a timeout and no   *)
(* default socket timeout is set, so a mirror that accepts the connection   *)
(* and then sends nothing keeps the call, and the process, waiting for      *)
(* ever.                                                                    *)
download_stall ==
    /\ pc = "Downloading"
    /\ ~stalled
    /\ stalled' = TRUE
    /\ UNCHANGED <<toolsDir, zipFile, pmdBin, resultsFile, pc, argv, exitCode,
                   stdout, stderr, attempted, extracted, binAtEntry, entered,
                   binVerified, pmdRun>>

(* What zipfile.extractall leaves behind for the archive at the staging     *)
(* path: the binary it wrote (if any) and whether it raised.  An unreadable *)
(* archive raises before anything is written; a readable one is unpacked,   *)
(* or raises part-way (disk full, permissions) with or without bin/pmd      *)
(* already written.                                                         *)
BinOf(zip) ==
    CASE zip.content = "good"   -> [src |-> zip.src, content |-> "works"]
      [] zip.content = "broken" -> [src |-> zip.src, content |-> "fails"]
      [] OTHER                  -> pmdBin

ExtractResults(zip) ==
    IF zip.content \in {"good", "broken", "nobin"}
    THEN {[raised |-> FALSE, bin |-> BinOf(zip)],
          [raised |-> TRUE,  bin |-> pmdBin]}
         \cup (IF zip.content = "nobin" THEN {}
               ELSE {[raised |-> TRUE,
                      bin |-> [src |-> zip.src, content |-> "fails"]]})
    ELSE {[raised |-> TRUE, bin |-> pmdBin]}

(* extract_pmd without the sys.exit(1) of line 137: the exception is logged *)
(* and main goes on to verify_pmd.                                          *)
extract_pmd_no_exit ==
    /\ pc = "Extracting"
    /\ extracted' = zipFile
    /\ \E r \in ExtractResults(zipFile) :
          /\ pmdBin' = r.bin
          /\ binVerified' = (IF r.bin = pmdBin THEN binVerified ELSE FALSE)
          /\ pc' = "Verifying"
          /\ entered' = Append(entered, "Verifying")
          /\ IF r.raised
             THEN /\ stderr' = Append(stderr, "Failed to extract PMD")
                  /\ UNCHANGED <<zipFile, stdout, exitCode>>
             ELSE /\ zipFile' = NoFile
                  /\ stdout' = Append(stdout, "Extracted")
                  /\ UNCHANGED <<stderr, exitCode>>
    /\ UNCHANGED <<toolsDir, resultsFile, argv, attempted, binAtEntry, stalled,
                   pmdRun>>

(* extract_pmd, lines 117-137: unpack, delete the staging archive, chmod;   *)
(* any exception ends the process with sys.exit(1).                         *)
extract_pmd ==
    /\ pc = "Extracting"
    /\ extracted' = zipFile
    /\ \E r \in ExtractResults(zipFile) :
          /\ pmdBin' = r.bin
          /\ binVerified' = (IF r.bin = pmdBin THEN binVerified ELSE FALSE)
          /\ IF r.raised
             THEN /\ pc' = "Failed"
                  /\ entered' = Append(entered, "Failed")
                  /\ stderr' = Append(stderr, "Failed to extract PMD")
                  /\ exitCode' = 1
                  /\ UNCHANGED <<zipFile, stdout>>
             ELSE /\ pc' = "Verifying"
                  /\ entered' = Append(entered, "Verifying")
                  /\ zipFile' = NoFile
                  /\ stdout' = Append(stdout, "Extracted")
                  /\ UNCHANGED <<stderr, exitCode>>
    /\ UNCHANGED <<toolsDir, resultsFile, argv, attempted, binAtEntry, stalled,
                   pmdRun>>

(* verify_pmd, lines 140-167: `pmd --version` under a 10 s timeout.  A      *)
(* missing binary raises, a failing one returns non-zero or hangs, a        *)
(* working one answers unless the timeout expires first.                    *)
VerifyResults ==
    IF pmdBin.content = "works" THEN {TRUE, FALSE} ELSE {FALSE}

(* main, lines 290-292 *)
verify_pmd ==
    /\ pc = "Verifying"
    /\ \E ok \in VerifyResults :
          IF ok
          THEN /\ pc' = "Installed"
               /\ entered' = Append(entered, "Installed")
               /\ binVerified' = TRUE
               /\ stdout' = Append(stdout, "PMD verified")
               /\ UNCHANGED <<stderr, exitCode>>
          ELSE /\ pc' = "Failed"
               /\ entered' = Append(entered, "Failed")
               /\ stderr' = stderr \o <<"PMD verification failed",
                                        "PMD installation verification failed">>
               /\ exitCode' = 1
               /\ UNCHANGED <<stdout, binVerified>>
    /\ UNCHANGED <<toolsDir, zipFile, pmdBin, resultsFile, argv, attempted,
                   extracted, binAtEntry, stalled, pmdRun>>

(* main, lines 294-332, and the exit status the __main__ block gives: the   *)
(* installation summary, then with a target the analysis, the reduction and *)
(* the results file.  open() of the results file can raise, which the       *)
(* __main__ block turns into exit status 1.                                 *)
main_after_install ==
    /\ pc = "Installed"
    /\ pc' = "Exited"
    /\ entered' = Append(entered, "Exited")
    /\ IF Len(argv) = 0
       THEN /\ stdout' = Append(stdout, "Installation Summary")
            /\ exitCode' = 0
            /\ UNCHANGED <<stderr, resultsFile, pmdRun>>
       ELSE \E targetExists \in BOOLEAN, rulesExist \in BOOLEAN,
               p \in PmdRuns, writable \in BOOLEAN :
            LET a == run_pmd_analysis(targetExists, rulesExist, p)
                results == a.ret
                simplified == format_pmd_results(results.data)
            IN  /\ pmdRun' = (IF a.invoked THEN p ELSE NoPmdRun)
                /\ IF ~Truthy(results)
                   THEN /\ stdout' = Append(stdout, "Installation Summary") \o a.out
                        /\ stderr' = stderr \o a.err
                        /\ exitCode' = 0
                        /\ UNCHANGED resultsFile
                   ELSE IF writable
                   THEN /\ stdout' = Append(stdout, "Installation Summary") \o a.out
                                     \o <<"Results", "Results saved">>
                        /\ stderr' = stderr \o a.err
                        /\ resultsFile' = [exists |-> TRUE, content |-> simplified]
                        /\ exitCode' = 0
                   ELSE /\ stdout' = Append(stdout, "Installation Summary") \o a.out
                                     \o <<"Results">>
                        /\ stderr' = stderr \o a.err \o <<"Unexpected error">>
                        /\ exitCode' = 1
                        /\ UNCHANGED resultsFile
    /\ UNCHANGED <<toolsDir, zipFile, pmdBin, argv, attempted, extracted,
                   binAtEntry, binVerified, stalled>>

(* What a process stopped from outside (Ctrl-C, kill) leaves behind: a part *)
(* of the archive when it was downloading, a part of the tree, with or      *)
(* without bin/pmd, when it was extracting.                                 *)
AbortLeftovers ==
    CASE pc = "Downloading" ->
           {[zip |-> zipFile, bin |-> pmdBin],
            [zip |-> Archive(NextUrl, "partial"), bin |-> pmdBin]}
      [] pc = "Extracting" /\ zipFile.content \in {"good", "broken"} ->
           {[zip |-> zipFile, bin |-> pmdBin],
            [zip |-> zipFile, bin |-> [src |-> zipFile.src, content |-> "fails"]]}
      [] OTHER -> {[zip |-> zipFile, bin |-> pmdBin]}

(* The __main__ block, lines 338-341: Ctrl-C while the process waits on a   *)
(* download, the extraction, the verification or the analysis.              *)
KeyboardInterrupt ==
    /\ pc \in {"Downloading", "Extracting", "Verifying", "Installed"}
    /\ pc' = "Exited"
    /\ entered' = Append(entered, "Exited")
    /\ exitCode' = 130
    /\ stalled' = FALSE
    /\ UNCHANGED pmdRun
    /\ stdout' = Append(stdout, "Operation cancelled by user")
    /\ \E left \in AbortLeftovers :
          /\ zipFile' = left.zip
          /\ pmdBin' = left.bin
    /\ UNCHANGED <<toolsDir, resultsFile, argv, stderr, attempted,
                   extracted, binAtEntry, binVerified>>

(* Line 113: after "All download mirrors failed" the process asks for the   *)
(* archive to be placed by hand at the staging path; the user does so, with *)
(* a complete archive, once that process has ended.                         *)
ManualArchive == Archive("manual", "good")
manual_place ==
    /\ pc = "Failed"
    /\ Has(stderr, "All download mirrors failed")
    /\ zipFile # ManualArchive
    /\ zipFile' = ManualArchive
    /\ UNCHANGED <<toolsDir, pmdBin, resultsFile, pc, argv, exitCode, stdout,
                   stderr, attempted, extracted, binAtEntry, entered,
                   binVerified, stalled, pmdRun>>

----------------------------------------------------------------------------
(* Strings the dispatcher takes apart are sequences of characters.          *)
SUFFIX == <<"-", "r", "e", "v", "i", "e", "w">>
SkillA == <<"a">>
SkillAReview == SkillA \o SUFFIX
SkillB == <<"b">>
SkillHidden == <<"_", "x">>
SPRING_REVIEWER ==
    <<"s", "p", "r", "i", "n", "g", "_", "r", "e", "v", "i", "e", "w", "e", "r">>
ANALYZE_TOOL == SPRING_REVIEWER \o <<"_", "a", "n", "a", "l", "y", "z", "e">>
OtherTool == <<"o", "t", "h", "e", "r">>

(* str.endswith, str.startswith *)
EndsWith(s, suffix) ==
    /\ Len(s) >= Len(suffix)
    /\ SubSeq(s, Len(s) - Len(suffix) + 1, Len(s)) = suffix
StartsWith(s, prefix) ==
    /\ Len(s) >= Len(prefix)
    /\ SubSeq(s, 1, Len(prefix)) = prefix

(* str.replace(old, new): every non-overlapping occurrence, left to right   *)
RECURSIVE Replace(_, _, _)
Replace(s, old, new) ==
    IF Len(s) < Len(old) THEN s
    ELSE IF SubSeq(s, 1, Len(old)) = old
    THEN new \o Replace(SubSeq(s, Len(old) + 1, Len(s)), old, new)
    ELSE <<Head(s)>> \o Replace(Tail(s), old, new)

(* The skills directory: whether it exists, whether it can be listed (it   *)
(* cannot when the process lacks the permission to read it, or when the     *)
(* path is a file), and its children in listing order, each a directory or  *)
(* a file, with or without a prompt.md.                                     *)
Child(n, d, pr) == [name |-> n, is_dir |-> d, prompt |-> pr]
SkillsDirs ==
    << [exists |-> FALSE, listable |-> FALSE, children |-> <<>>],
       [exists |-> TRUE, listable |-> TRUE,
        children |-> << Child(SPRING_REVIEWER, TRUE, TRUE), Child(SkillA, TRUE, TRUE),
                        Child(SkillAReview, TRUE, TRUE), Child(SkillHidden, TRUE, TRUE) >>],
       [exists |-> TRUE, listable |-> TRUE,
        children |-> << Child(SkillAReview, TRUE, TRUE),
                        Child(SPRING_REVIEWER, TRUE, FALSE), Child(SkillB, FALSE, FALSE) >>],
       [exists |-> TRUE, listable |-> TRUE,
        children |-> << Child(SkillA, TRUE, FALSE), Child(SkillB, TRUE, TRUE) >>],
       [exists |-> TRUE, listable |-> FALSE, children |-> <<>>] >>

(* SkillRegistry._discover_skills: the names registered, in listing order   *)
RECURSIVE DiscoverFrom(_)
DiscoverFrom(children) ==
    IF children = <<>> THEN <<>>
    ELSE LET child == Head(children) IN
         (IF child.is_dir /\ ~StartsWith(child.name, <<"_">>)
          THEN <<child.name>> ELSE <<>>)
         \o DiscoverFrom(Tail(children))

_discover_skills(dir) ==
    IF ~dir.exists THEN <<>> ELSE DiscoverFrom(dir.children)

(* Line 25: iterdir raises OSError on a directory that exists and cannot be *)
(* listed; nothing between it and the top of the process catches it.        *)
iterdir_raises(dir) == dir.exists /\ ~dir.listable

Registered(name) == \E i \in 1..Len(skills) : skills[i] = name

(* skill["prompt_file"].exists() for the registered skill `name`            *)
PromptFileExists(name) ==
    \E i \in 1..Len(skillsDir.children) :
        /\ skillsDir.children[i].name = name
        /\ skillsDir.children[i].prompt

(* The text of the prompt file of skill `name`, named by the file it is.    *)
PromptText(name) == name \o <<"/", "prompt.md">>

----------------------------------------------------------------------------
(* JSON values of a request: a key that is absent, null, a string (a        *)
(* sequence of characters, possibly empty) or a number.                     *)
Absent == [type |-> "absent", v |-> <<>>]
Null == [type |-> "null", v |-> <<>>]
Str(s) == [type |-> "string", v |-> s]
Number == [type |-> "number", v |-> <<>>]

(* Python truthiness of the value dict.get returns for it                   *)
Truth(j) == \/ j.type = "number"      \* the number sent is non-zero
            \/ j.type = "string" /\ j.v # <<>>

Ids == {"none", "id1"}

Line(k, m, i, p, n, a, t) ==
    [kind |-> k, method |-> m, id |-> i, params |-> p, name |-> n,
     arguments |-> a, target_path |-> t]

(* The input lines: text that is not JSON, JSON that is not an object, and  *)
(* request objects.  name, arguments and target_path are read only when the *)
(* mapping that holds them is an object.                                    *)
Lines ==
    { Line(k, "", "none", "absent", Absent, "absent", Absent) :
        k \in {"garbage", "array"} }
    \cup { Line("object", m, i, "absent", Absent, "absent", Absent) :
             m \in {"initialize", "prompts/list", "tools/list", "unknown"},
             i \in Ids }
    \cup { Line("object", "initialize", i, "null", Absent, "absent", Absent) :
             i \in Ids }
    \cup { Line("object", m, i, p, Absent, "absent", Absent) :
             m \in {"prompts/get", "tools/call"},
             i \in Ids, p \in {"absent", "null"} }
    \cup { Line("object", "prompts/get", i, "object", n, "absent", Absent) :
             i \in Ids,
             n \in {Absent, Str(SkillA), Str(SkillA \o SUFFIX),
                    Str(SkillAReview \o SUFFIX), Str(SkillB \o SUFFIX),
                    Str(SPRING_REVIEWER \o SUFFIX)} }
    \cup { Line("object", "tools/call", i, "object", n, "object", Str(ProjPath)) :
             i \in Ids, n \in {Absent, Str(OtherTool)} }
    \cup { Line("object", "tools/call", i, "object", Str(ANALYZE_TOOL), a, Absent) :
             i \in Ids, a \in {"absent", "null"} }
    \cup { Line("object", "tools/call", i, "object", Str(ANALYZE_TOOL), "object", t) :
             i \in Ids, t \in {Absent, Str(<<>>), Str(ProjPath), Number} }

NoLine == Line("none", "", "none", "absent", Absent, "absent", Absent)

(* What readline returns at end of input: the empty bytes object.           *)
EndOfInput == Line("eof", "", "none", "absent", Absent, "absent", Absent)

(* A response: the keys of the object written, its id, and the content of  *)
(* its result (payload, items, text) or of its error (code, text).          *)
NoResponse ==
    [sent |-> FALSE, keys |-> {}, id |-> "none", kind |-> "none", code |-> 0,
     payload |-> "", items |-> <<>>, text |-> <<>>]
Result(i, what, its, txt) ==
    [sent |-> TRUE, keys |-> {"jsonrpc", "id", "result"}, id |-> i,
     kind |-> "result", code |-> 0,
     payload |-> what, items |-> its, text |-> txt]

(* An error response that carries the id of no request.                     *)
Error_untagged(i, c, msg) ==
    [sent |-> TRUE, keys |-> {"jsonrpc", "id", "error"}, id |-> "none",
     kind |-> "error", code |-> c,
     payload |-> "", items |-> <<>>, text |-> <<msg>>]
Error(i, c, msg) ==
    [sent |-> TRUE, keys |-> {"jsonrpc", "id", "error"}, id |-> i,
     kind |-> "error", code |-> c,
     payload |-> "", items |-> <<>>, text |-> <<msg>>]

NoCompleted == [ran |-> FALSE, returncode |-> 0]

----------------------------------------------------------------------------
(* JSON-RPC error codes of the dispatcher *)
INVALID_PARAMS == -32602
INTERNAL_ERROR == -32603

Raise == [outcome |-> "raise", resp |-> NoResponse]
ReturnNone == [outcome |-> "none", resp |-> NoResponse]
Return(r) == [outcome |-> "response", resp |-> r]
Spawn == [outcome |-> "spawn", resp |-> NoResponse]

(* The prompt names prompts/list advertises, in registry order              *)
PromptNames == [i \in 1..Len(skills) |-> skills[i] \o SUFFIX]

(* prompts/get, lines 95-118.  params.get raises on params that are null;   *)
(* a request without params has the default {}.                             *)
prompts_get(req) ==
    IF req.params = "null" THEN Raise
    ELSE LET name == IF req.params = "object" THEN req.name ELSE Absent IN
         IF name.type = "number" THEN Raise
         ELSE IF Truth(name) /\ EndsWith(name.v, SUFFIX)
         THEN LET skill_name == Replace(name.v, SUFFIX, <<>>) IN
              IF Registered(skill_name) /\ PromptFileExists(skill_name)
              THEN Return(Result(req.id, "messages",
                                 <<PromptText(skill_name)>>, <<"user">>))
              ELSE ReturnNone
         ELSE ReturnNone

(* tools/call up to the subprocess, lines 144-156 *)
tools_call(req) ==
    IF req.params = "null" THEN Raise
    ELSE LET name == IF req.params = "object" THEN req.name ELSE Absent
             args == IF req.params = "object" THEN req.arguments ELSE "absent"
         IN  IF name = Str(ANALYZE_TOOL)
             THEN IF args = "null" THEN Raise
                  ELSE LET target_path ==
                               IF args = "object" THEN req.target_path ELSE Absent
                       IN  IF ~Registered(SPRING_REVIEWER) \/ ~Truth(target_path)
                           THEN Return(Error(req.id, INVALID_PARAMS, "Invalid arguments"))
                           ELSE Spawn
             ELSE ReturnNone

(* handle_request, lines 59-183, for a decoded JSON object                  *)
handle_request(req) ==
    CASE req.method = "initialize" ->
           Return(Result(req.id, "capabilities", <<>>, <<>>))
      [] req.method = "prompts/list" ->
           Return(Result(req.id, "prompts", PromptNames, <<>>))
      [] req.method = "prompts/get" -> prompts_get(req)
      [] req.method = "tools/list" ->
           Return(Result(req.id, "tools",
                         IF Registered(SPRING_REVIEWER) THEN <<ANALYZE_TOOL>> ELSE <<>>,
                         <<>>))
      [] req.method = "tools/call" -> tools_call(req)
      [] OTHER -> ReturnNone

(* One pass of the loop of run, lines 46-57, on a line: json.loads raises   *)
(* on text that is not JSON, request.get raises on JSON that is not an      *)
(* object; every exception is logged and nothing is written.                *)
Handle(line) ==
    IF line.kind = "object" THEN handle_request(line) ELSE Raise

(* main, MCPServer.__init__ and the start of run: the registry is built     *)
(* from the skills directory; an exception of the constructor ends the      *)
(* process before run is called.  The history of an earlier standalone run  *)
(* is dropped.                                                              *)
MCPServer_init(dir) ==
    /\ srv \in {"Down", "Crashed"}
    /\ Ended
    /\ skillsDir' = dir
    /\ IF iterdir_raises(dir)
       THEN /\ srv' = "Crashed"
            /\ skills' = <<>>
       ELSE /\ srv' = "Listening"
            /\ skills' = _discover_skills(dir)
    /\ request' = NoLine
    /\ response' = NoResponse
    /\ completed' = NoCompleted
    /\ spawned' = FALSE
    /\ pc' = "NotRunning"
    /\ argv' = <<>>
    /\ exitCode' = -1
    /\ stdout' = <<>>
    /\ stderr' = <<>>
    /\ attempted' = <<>>
    /\ extracted' = NoFile
    /\ binAtEntry' = FALSE
    /\ entered' = <<>>
    /\ pmdRun' = NoPmdRun
    /\ UNCHANGED <<toolsDir, zipFile, pmdBin, resultsFile, binVerified, stalled>>

(* The loop of run without the except clause of lines 56-57: an exception  *)
(* of a cycle leaves the loop and ends the process.                         *)
run_cycle_fatal(line) ==
    /\ srv = "Listening"
    /\ Handle(line).outcome # "spawn"
    /\ request' = line
    /\ response' = Handle(line).resp
    /\ completed' = NoCompleted
    /\ spawned' = FALSE
    /\ srv' = (IF Handle(line).outcome = "raise" THEN "Down" ELSE srv)
    /\ UNCHANGED <<skillsDir, skills>>
    /\ UNCHANGED pipeVars

(* The loop of run with a handler that does not block on subprocess.run:   *)
(* the next line is read while the subordinate process of the last one      *)
(* still runs.                                                              *)
run_cycle_async(line) ==
    /\ srv \in {"Listening", "Waiting"}
    /\ Handle(line).outcome # "spawn"
    /\ request' = line
    /\ response' = Handle(line).resp
    /\ completed' = NoCompleted
    /\ spawned' = FALSE
    /\ UNCHANGED <<srv, skillsDir, skills>>
    /\ UNCHANGED pipeVars

(* A cycle that spawns nothing: read, decode, dispatch, write.              *)
run_cycle(line) ==
    /\ srv = "Listening"
    /\ Handle(line).outcome # "spawn"
    /\ request' = line
    /\ response' = Handle(line).resp
    /\ completed' = NoCompleted
    /\ spawned' = FALSE
    /\ UNCHANGED <<srv, skillsDir, skills>>
    /\ UNCHANGED pipeVars

(* A valid tools/call, lines 156-166 and 180-181: subprocess.run starts the *)
(* pipeline with the target path and waits for it, or raises at once (a     *)
(* target_path that is not a string, a Python that cannot be started).      *)
tools_call_spawn(line) ==
    /\ srv = "Listening"
    /\ Handle(line).outcome = "spawn"
    /\ request' = line
    /\ completed' = NoCompleted
    /\ UNCHANGED <<skillsDir, skills>>
    /\ \/ /\ line.target_path.type = "string"
          /\ srv' = "Waiting"
          /\ spawned' = TRUE
          /\ response' = NoResponse
          /\ main_entry(<<line.target_path.v>>)
       \/ /\ srv' = "Listening"
          /\ spawned' = FALSE
          /\ response' = Error(line.id, INTERNAL_ERROR, "str(e)")
          /\ UNCHANGED pipeVars

(* The subordinate process is gone: nothing of it is left but the files.   *)
Reaped ==
    /\ pc' = "NotRunning"
    /\ argv' = <<>>
    /\ exitCode' = -1
    /\ stdout' = <<>>
    /\ stderr' = <<>>
    /\ attempted' = <<>>
    /\ extracted' = NoFile
    /\ binAtEntry' = FALSE
    /\ entered' = <<>>
    /\ stalled' = FALSE
    /\ pmdRun' = NoPmdRun

(* Lines 161-179: the subordinate process has ended; its output is the      *)
(* text of the result, whatever its exit status.                            *)
tools_call_return ==
    /\ srv = "Waiting"
    /\ pc \in {"Exited", "Failed"}
    /\ srv' = "Listening"
    /\ completed' = [ran |-> TRUE, returncode |-> exitCode]
    /\ response' = Result(request.id, "content", <<>>,
                          stdout \o <<"\n">> \o stderr)
    /\ Reaped
    /\ UNCHANGED <<skillsDir, skills, request, spawned>>
    /\ UNCHANGED <<toolsDir, zipFile, pmdBin, resultsFile, binVerified>>

(* subprocess.run called without `timeout=300`: nothing ends the wait for   *)
(* a subordinate process that does not end by itself.                       *)
tools_call_no_timeout ==
    /\ FALSE
    /\ UNCHANGED vars

(* Lines 165 and 180-181: the 300 s timeout expires while the subordinate   *)
(* process still runs; subprocess.run kills it and raises TimeoutExpired.   *)
tools_call_timeout ==
    /\ srv = "Waiting"
    /\ pc \in {"Downloading", "Extracting", "Verifying", "Installed"}
    /\ srv' = "Listening"
    /\ completed' = NoCompleted
    /\ response' = Error(request.id, INTERNAL_ERROR, "str(e)")
    /\ \E left \in AbortLeftovers :
          /\ zipFile' = left.zip
          /\ pmdBin' = left.bin
    /\ Reaped
    /\ UNCHANGED <<skillsDir, skills, request, spawned>>
    /\ UNCHANGED <<toolsDir, resultsFile, binVerified>>

(* Lines 47-50: readline returns the empty bytes object at end of input,   *)
(* which ends the loop and the process.                                     *)
run_eof ==
    /\ srv = "Listening"
    /\ srv' = "Down"
    /\ request' = EndOfInput
    /\ response' = NoResponse
    /\ completed' = NoCompleted
    /\ spawned' = FALSE
    /\ UNCHANGED <<skillsDir, skills>>
    /\ UNCHANGED pipeVars

(* The pipeline started from the command line, while no server runs.        *)
standalone(args) ==
    /\ srv \in {"Down", "Crashed"}
    /\ main_entry(args)
    /\ UNCHANGED srvVars

----------------------------------------------------------------------------
Init ==
    /\ toolsDir = FALSE
    /\ zipFile = NoFile
    /\ pmdBin = NoBin
    /\ resultsFile = NoResults
    /\ pc = "NotRunning"
    /\ argv = <<>>
    /\ exitCode = -1
    /\ stdout = <<>>
    /\ stderr = <<>>
    /\ attempted = <<>>
    /\ extracted = NoFile
    /\ binAtEntry = FALSE
    /\ entered = <<>>
    /\ binVerified = FALSE
    /\ stalled = FALSE
    /\ pmdRun = NoPmdRun
    /\ srv = "Down"
    /\ skillsDir = SkillsDirs[1]
    /\ skills = <<>>
    /\ request = NoLine
    /\ response = NoResponse
    /\ completed = NoCompleted
    /\ spawned = FALSE

Next ==
    \/ \E args \in ArgvChoices : standalone(args)
    \/ download_pmd /\ UNCHANGED srvVars
    \/ download_stall /\ UNCHANGED srvVars
    \/ extract_pmd /\ UNCHANGED srvVars
    \/ verify_pmd /\ UNCHANGED srvVars
    \/ main_after_install /\ UNCHANGED srvVars
    \/ KeyboardInterrupt /\ UNCHANGED srvVars
    \/ manual_place /\ UNCHANGED srvVars
    \/ \E d \in 1..Len(SkillsDirs) : MCPServer_init(SkillsDirs[d])
    \/ \E line \in Lines : run_cycle(line)
    \/ \E line \in Lines : tools_call_spawn(line)
    \/ tools_call_return
    \/ tools_call_timeout
    \/ run_eof

Spec == Init /\ [][Next]_vars

(* subprocess.run(..., timeout=300) returns once the subordinate process    *)
(* has ended and raises TimeoutExpired once the timeout has expired while   *)
(* it still runs: the dispatcher does not stay inside the call for ever.    *)
(* Nothing is assumed about the subordinate process itself, about the input *)
(* or about standalone runs.                                                *)
LiveSpec ==
    /\ Spec
    /\ WF_vars(tools_call_return)
    /\ WF_vars(tools_call_timeout)

----------------------------------------------------------------------------
(* Properties *)

(* C1: the mirrors are attempted in list order, each at most once (the URLs *)
(* attempted are always a prefix of PMD_URLS); when a download succeeds the *)
(* archive at the staging path, and the archive later handed to extraction, *)
(* is the one of the last URL attempted, and no further URL is attempted in *)
(* that run.                                                                *)
C1_MirrorFallback ==
    /\ Len(attempted) <= Len(PMD_URLS)
    /\ attempted = SubSeq(PMD_URLS, 1, Len(attempted))
    /\ pc = "Extracting" =>
          /\ attempted # <<>>
          /\ zipFile.src = Last(attempted)
          /\ zipFile.content \in ArchiveKinds
    /\ Exists(extracted) =>
          /\ attempted # <<>>
          /\ extracted.src = Last(attempted)
          /\ extracted.content \in ArchiveKinds

(* C1 witness: the first mirror failed, the second succeeded and its        *)
(* archive was extracted.                                                   *)
C1_Witness ==
    /\ pc = "Verifying"
    /\ attempted = <<"github", "sourceforge">>
    /\ extracted.src = "sourceforge"

(* C2: a run is at Installed only if the binary at the install path has     *)
(* passed the version-query verification.                                   *)
C2_InstalledOnlyVerified ==
    pc = "Installed" => binVerified

FailureTags ==
    {"All download mirrors failed", "Failed to extract PMD",
     "PMD installation verification failed"}
StageFailed == \E t \in FailureTags : Has(stderr, t)

Rank(stage) ==
    CASE stage = "Absent" -> 0
      [] stage = "Downloading" -> 1
      [] stage = "Extracting" -> 2
      [] stage = "Verifying" -> 3
      [] stage = "Installed" -> 4
      [] OTHER -> 5

(* C3: the stages of a run only advance; a run in which a stage failed is   *)
(* in Failed with exit status 1, Failed is the last stage it entered, and   *)
(* it entered no later stage: nothing was extracted after a failed          *)
(* download, the installation summary and the analysis were not reached,    *)
(* and the step into Failed leaves the results file as it was.              *)
C3_MonotonicStages ==
    /\ [](/\ \A i, j \in 1..Len(entered) :
                i < j => Rank(entered[i]) < Rank(entered[j])
          /\ (pc \notin {"NotRunning"}) => Last(entered) = pc
          /\ StageFailed <=> pc = "Failed"
          /\ pc = "Failed" =>
                /\ exitCode = 1
                /\ ~Has(entered, "Installed")
                /\ ~Has(stdout, "Installation Summary")
                /\ Has(stderr, "All download mirrors failed") =>
                      ~Exists(extracted) /\ ~Has(entered, "Extracting")
                /\ Has(stderr, "Failed to extract PMD") =>
                      ~Has(entered, "Verifying"))
    /\ [][pc' = "Failed" => resultsFile' = resultsFile]_vars

(* C3 witness: a run that failed in verification.                           *)
C3_Witness ==
    /\ pc = "Failed"
    /\ entered = <<"Absent", "Downloading", "Extracting", "Verifying", "Failed">>

(* C4: the run reports that all mirrors failed only after every URL has     *)
(* been tried, ends with exit status 1, and no binary is at the install     *)
(* path; a run never stays in Downloading once the last URL has failed.     *)
C4_AllMirrorsFailed ==
    /\ Has(stderr, "All download mirrors failed") =>
          /\ attempted = PMD_URLS
          /\ pc = "Failed"
          /\ exitCode = 1
          /\ ~Exists(pmdBin)
    /\ pc = "Downloading" => Len(attempted) < Len(PMD_URLS)

(* C4 witness: a run in which all three mirrors failed.                     *)
C4_Witness ==
    /\ pc = "Failed"
    /\ attempted = PMD_URLS
    /\ Has(stderr, "All download mirrors failed")
    /\ ~Exists(pmdBin)

(* C5: a process started while the binary exists goes directly to Installed *)
(* and during its whole run attempts no download, extracts nothing and      *)
(* leaves the tools directory, the staging archive and the binary as they   *)
(* were.                                                                    *)
C5_IdempotentReentry ==
    /\ [](binAtEntry =>
            /\ attempted = <<>>
            /\ ~Exists(extracted)
            /\ entered[1] = "Installed"
            /\ pc \in {"Installed", "Exited"})
    /\ [][binAtEntry' => UNCHANGED <<toolsDir, zipFile, pmdBin, binVerified>>]_vars

(* C5 witness: a second run after a verified install has ended normally.    *)
C5_Witness ==
    /\ binAtEntry
    /\ binVerified
    /\ pc = "Exited"
    /\ exitCode = 0

AnalysisFailureTags ==
    {"Target path does not exist", "Rules file does not exist",
     "PMD analysis timed out", "Failed to run PMD", "PMD exited with code"}

(* C6: a process that has ended has exit status 130 when it was             *)
(* interrupted, 1 when a stage of provisioning or the analysis failed, and  *)
(* 0 otherwise.                                                             *)
C6_ExitCodes ==
    pc \in {"Exited", "Failed"} =>
        LET interrupted == Has(stdout, "Operation cancelled by user")
            failed == \/ StageFailed
                      \/ \E t \in AnalysisFailureTags : Has(stderr, t)
        IN  /\ interrupted => exitCode = 130
            /\ (~interrupted /\ failed) => exitCode = 1
            /\ (~interrupted /\ ~failed /\ ~Has(stderr, "Unexpected error"))
                   => exitCode = 0
            /\ exitCode \in {0, 1, 130}

(* C7: prompts/get with the name "<s>-review" returns the text of the       *)
(* prompt file of skill s as one user-role message when s is registered and *)
(* its prompt file exists, and writes no response otherwise.                *)
C7_PromptsGet ==
    (/\ srv = "Listening"
     /\ request.kind = "object"
     /\ request.method = "prompts/get"
     /\ request.params = "object"
     /\ request.name.type = "string"
     /\ EndsWith(request.name.v, SUFFIX))
    => LET s == SubSeq(request.name.v, 1, Len(request.name.v) - Len(SUFFIX))
       IN  IF Registered(s) /\ PromptFileExists(s)
           THEN response = Result(request.id, "messages", <<PromptText(s)>>,
                                  <<"user">>)
           ELSE ~response.sent

(* A tools/call for the analyzer tool that must not reach the pipeline: the *)
(* skill is not registered, or the request holds no target_path (no         *)
(* arguments mapping, no such key, null, or the empty string).              *)
TargetMissing(req) ==
    \/ req.arguments # "object"
    \/ req.target_path.type \in {"absent", "null"}
    \/ req.target_path = Str(<<>>)
InvalidAnalyzerCall(req) ==
    /\ req.kind = "object"
    /\ req.method = "tools/call"
    /\ req.params = "object"
    /\ req.name = Str(ANALYZE_TOOL)
    /\ ~Registered(SPRING_REVIEWER) \/ TargetMissing(req)

(* C8: an invalid tools/call for the analyzer tool is answered with the     *)
(* error -32602 and no subordinate process is started for it.               *)
C8_InvalidCallRejected ==
    (srv # "Down" /\ InvalidAnalyzerCall(request))
    => /\ ~spawned
       /\ response = Error(request.id, INVALID_PARAMS, "Invalid arguments")

(* The half of C8 that the code keeps: no subordinate process is started    *)
(* for an invalid call; a cycle that started one handles a tools/call for   *)
(* the analyzer tool with a registered skill and a non-empty target path.   *)
NoSpawnForInvalidCall ==
    /\ (srv # "Down" /\ InvalidAnalyzerCall(request)) => ~spawned /\ pc = "NotRunning"
    /\ spawned =>
          /\ request.method = "tools/call"
          /\ request.name = Str(ANALYZE_TOOL)
          /\ Registered(SPRING_REVIEWER)
          /\ Truth(request.target_path)

(* A tools/call with a configuration fault: no usable params, no tool name  *)
(* or an unknown one, an unregistered skill, or no target_path.             *)
ConfigFault(req) ==
    /\ req.kind = "object"
    /\ req.method = "tools/call"
    /\ \/ req.params # "object"
       \/ req.name # Str(ANALYZE_TOOL)
       \/ ~Registered(SPRING_REVIEWER)
       \/ TargetMissing(req)

(* C9: every tools/call with a configuration fault is answered with an      *)
(* error response carrying the id of the request, and the dispatcher goes   *)
(* on listening.                                                            *)
C9_ConfigFaultAnswered ==
    (srv # "Down" /\ ConfigFault(request))
    => /\ srv = "Listening"
       /\ response.sent
       /\ response.kind = "error"
       /\ response.id = request.id

(* C10: when the subordinate pipeline of a tools/call ended in failure      *)
(* (exit status 1) the response is a failed tool call, an error response,   *)
(* not the result a successful run gets.                                    *)
C10_FailedRunFailsCall ==
    (srv = "Listening" /\ completed.ran /\ completed.returncode = 1)
    => /\ response.sent
       /\ response.id = request.id
       /\ response.kind = "error"

(* C11: no input line ends the dispatcher loop.  Whatever the last line     *)
(* read was (text that is not JSON, JSON that is not an object, an unknown  *)
(* method, null or missing params, a tool call whose subordinate process    *)
(* failed, timed out or could not be started), the dispatcher is at the     *)
(* read of the next line or inside the subprocess call of that line; the    *)
(* loop has ended only if the last read returned end of input, and the only *)
(* steps that leave Listening are the start of a subordinate process and    *)
(* the read of end of input.                                                *)
C11_LoopSurvives ==
    /\ [](/\ srv = "Down" => request.kind \in {"none", "eof"}
          /\ request.kind \in {"garbage", "array", "object"} =>
                srv \in {"Listening", "Waiting"}
          /\ srv = "Waiting" => spawned /\ request.kind = "object")
    /\ [][(srv = "Listening" /\ srv' # "Listening") =>
             \/ srv' = "Waiting" /\ spawned'
             \/ srv' = "Down" /\ request' = EndOfInput]_vars

(* C11 witness: the dispatcher is back at the read after a line that was    *)
(* JSON but not an object, for which nothing was written.                   *)
C11_Witness ==
    /\ srv = "Listening"
    /\ request.kind = "array"
    /\ ~response.sent

(* C12: dispatch cycles do not overlap.  While the dispatcher runs, a       *)
(* subordinate process exists only inside the subprocess call of the line   *)
(* in hand, whose response is not yet written; a line is read only at       *)
(* Listening with no subordinate process left; a subordinate process is     *)
(* started only when none exists; and a response is written only for the    *)
(* line read last, after its subordinate process is gone, so responses      *)
(* follow the order of their requests.                                      *)
C12_NoOverlap ==
    /\ [](/\ (srv \in {"Listening", "Waiting"} /\ pc # "NotRunning") =>
                srv = "Waiting" /\ spawned /\ ~response.sent
          /\ srv = "Waiting" => pc # "NotRunning"
          /\ response.sent => response.id = request.id)
    /\ [][/\ (request' # request /\ request' # NoLine) =>
                srv = "Listening" /\ pc = "NotRunning"
          /\ (srv # "Waiting" /\ srv' = "Waiting") => pc = "NotRunning"
          /\ (response' # response /\ response'.sent) =>
                /\ srv' = "Listening"
                /\ pc' = "NotRunning"
                /\ response'.id = request'.id]_vars

(* C12 witness: a tool call whose subordinate process has ended and been    *)
(* answered; the dispatcher is back at the read.                            *)
C12_Witness ==
    /\ srv = "Listening"
    /\ spawned
    /\ completed.ran
    /\ response.sent
    /\ pc = "NotRunning"

(* C13: every response written is an object with exactly one of the keys    *)
(* result and error (an error with its code and its message), and its id is *)
(* the id of the request of that cycle, null when the request had none.     *)
C13_OneOfResultError ==
    response.sent =>
        /\ ("result" \in response.keys) # ("error" \in response.keys)
        /\ "id" \in response.keys
        /\ response.id = request.id
        /\ "error" \in response.keys =>
              /\ response.kind = "error"
              /\ response.code \in {INVALID_PARAMS, INTERNAL_ERROR}
              /\ Len(response.text) = 1
        /\ "result" \in response.keys => response.kind = "result"

(* C13 witness: an error response to a request that carried an id.          *)
C13_Witness ==
    /\ response.sent
    /\ "error" \in response.keys
    /\ request.id = "id1"
    /\ response.id = "id1"

(* A step the pipeline process takes by itself: the operation it waits on   *)
(* answers, fails, or runs into its timeout.                                *)
PipelineStep ==
    (download_pmd \/ extract_pmd \/ verify_pmd \/ main_after_install)
    /\ UNCHANGED srvVars

(* C14: a run that waits on an external operation (a mirror download, the   *)
(* extraction, the verification, the analysis) always has a step of its own *)
(* to take, the answer of the operation or its timeout, so that it cannot   *)
(* wait for ever and every run ends in Exited or Failed.                    *)
C14_StagesTimeOut ==
    pc \in {"Downloading", "Extracting", "Verifying", "Installed"}
    => ENABLED PipelineStep

(* The analyzer process of the run ended with exit code 0 or 4.             *)
AnalyzerSucceeded == pmdRun.kind = "exit" /\ pmdRun.rc \in {0, 4}

(* The expected shape of the analyzer's output: a JSON object with a files  *)
(* list.                                                                    *)
ExpectedShape(doc) == doc.json = "object" /\ "files" \in DOMAIN doc.value

(* C15: when the analyzer ended with exit code 0 or 4 and its output is not *)
(* of the expected shape (not JSON, or JSON that is not an object with a    *)
(* files list), the run reports no analysis failure and goes on with the    *)
(* raw output text.                                                         *)
C15_RawOnBadShape ==
    (pc = "Exited" /\ AnalyzerSucceeded /\ ~ExpectedShape(PmdDocs[pmdRun.doc]))
    => /\ \A t \in AnalysisFailureTags : ~Has(stderr, t)
       /\ Has(stdout, "Could not parse JSON output")

(* C16: skill discovery never ends the dispatcher process.  When the skills *)
(* root does not exist or cannot be listed, the dispatcher starts with an   *)
(* empty registry and serves: prompts/list and tools/list are answered with *)
(* empty lists.                                                             *)
C16_DiscoveryNeverFatal ==
    /\ srv # "Crashed"
    /\ (srv \in {"Listening", "Waiting"}
        /\ (~skillsDir.exists \/ ~skillsDir.listable)) =>
          /\ skills = <<>>
          /\ (srv = "Listening"
              /\ request.kind = "object"
              /\ request.method \in {"prompts/list", "tools/list"}) =>
                /\ response.sent
                /\ response.kind = "result"
                /\ response.items = <<>>

(* A run with a target whose analysis succeeded: run_pmd_analysis reported  *)
(* no failure for an analyzer that ended with exit code 0 or 4, and the run *)
(* ended normally.                                                          *)
AnalysisSucceeded ==
    /\ pc = "Exited"
    /\ exitCode = 0
    /\ Len(argv) > 0
    /\ AnalyzerSucceeded
    /\ \A t \in AnalysisFailureTags : ~Has(stderr, t)

(* The Violation sequence of the run: the reduction of what the analyzer    *)
(* printed, empty when that was not a JSON object.                          *)
ViolationsOfRun ==
    LET doc == PmdDocs[pmdRun.doc] IN
    IF doc.json = "object" THEN format_pmd_results(doc.value) ELSE <<>>

(* C17: after a run with a target whose analysis succeeded, the results     *)
(* file exists and holds exactly the Violation sequence of that run (the    *)
(* empty array when there is none), whatever it held before.                *)
C17_ResultsOfThisRun ==
    AnalysisSucceeded =>
        resultsFile = [exists |-> TRUE, content |-> ViolationsOfRun]

(* C18: the outcome of the analysis follows from the analyzer's exit code   *)
(* alone.  With exit code 0 or 4 it is a success, whatever the output       *)
(* lists: no analysis failure is reported and a result is returned.  With   *)
(* any other exit code it is a failure: the exit code is reported on        *)
(* standard error and there is no result.                                   *)
C18_ExitCodeAlone ==
    (pc = "Exited" /\ pmdRun.kind = "exit") =>
        IF pmdRun.rc \in {0, 4}
        THEN /\ \A t \in AnalysisFailureTags : ~Has(stderr, t)
             /\ \/ Has(stdout, "Analysis complete")
                \/ Has(stdout, "Could not parse JSON output")
        ELSE /\ Has(stderr, "PMD exited with code")
             /\ ~Has(stdout, "Analysis complete")
             /\ ~Has(stdout, "Results")

(* The violations of a file entry of the analyzer's output, and the number  *)
(* of violations in the entries before entry f.                             *)
ViolationsOf(file_entry) ==
    IF "violations" \in DOMAIN file_entry THEN file_entry.violations ELSE <<>>
RECURSIVE ViolationsBefore(_, _)
ViolationsBefore(files, f) ==
    IF f = 1 THEN 0
    ELSE ViolationsBefore(files, f - 1) + Len(ViolationsOf(files[f - 1]))

(* C19: the reduction written by a run has one Violation per violation of   *)
(* the analyzer's output, in input order (files in order, the violations of *)
(* a file in order), so its length is the total number of input violations; *)
(* each Violation carries the file name of its entry and the rule of its    *)
(* violation, priority 3 when the input has none, and line and end line 0   *)
(* when the input has none.                                                 *)
C19_ViolationReduction ==
    (pc = "Exited" /\ Has(stdout, "Results saved")
     /\ PmdDocs[pmdRun.doc].json = "object") =>
        LET data == PmdDocs[pmdRun.doc].value
            files == IF "files" \in DOMAIN data THEN data.files ELSE <<>>
            out == resultsFile.content
        IN  /\ Len(out) = ViolationsBefore(files, Len(files) + 1)
            /\ \A f \in 1..Len(files) :
                  \A j \in 1..Len(ViolationsOf(files[f])) :
                     LET v == ViolationsOf(files[f])[j]
                         o == out[ViolationsBefore(files, f) + j]
                     IN  /\ o.file = (IF "filename" \in DOMAIN files[f]
                                      THEN files[f].filename ELSE "unknown")
                         /\ o.rule = v.rule
                         /\ o.priority = (IF "priority" \in DOMAIN v
                                          THEN v.priority ELSE 3)
                         /\ o.line = (IF "beginline" \in DOMAIN v
                                      THEN v.beginline ELSE 0)
                         /\ o.endLine = (IF "endline" \in DOMAIN v
                                         THEN v.endline ELSE 0)

(* C19 witness: a run reduced an output of three file entries, one of them  *)
(* without violations, to three Violations.                                 *)
C19_Witness ==
    /\ pc = "Exited"
    /\ Has(stdout, "Results saved")
    /\ pmdRun.doc = 7
    /\ Len(resultsFile.content) = 3
    /\ resultsFile.content[2].priority = 5
    /\ resultsFile.content[1].priority = 3

(* A tools/call for the analyzer tool that passes validation.               *)
ValidAnalyzerCall(req) ==
    /\ req.kind = "object"
    /\ req.method = "tools/call"
    /\ req.params = "object"
    /\ req.name = Str(ANALYZE_TOOL)
    /\ req.arguments = "object"
    /\ Registered(SPRING_REVIEWER)
    /\ Truth(req.target_path)

(* C20: every validated tools/call for the analyzer tool is answered with   *)
(* exactly one response carrying the id of the request.  While the          *)
(* subordinate process runs nothing is written; the wait always ends; when  *)
(* it has ended the response is a result if the process ended within the    *)
(* timeout and the error -32603 if the timeout expired or the process could *)
(* not be started; and the dispatcher is back at the read of the next line. *)
C20_CallAnswered ==
    /\ [](srv = "Waiting" => ValidAnalyzerCall(request) /\ ~response.sent)
    /\ [](srv = "Listening" /\ ValidAnalyzerCall(request) =>
            /\ response.sent
            /\ response.id = request.id
            /\ IF completed.ran
               THEN spawned /\ response.kind = "result"
               ELSE response.kind = "error" /\ response.code = INTERNAL_ERROR)
    /\ (srv = "Waiting") ~>
          (srv = "Listening" /\ response.sent /\ response.id = request.id)
    /\ [][srv = "Waiting" /\ response' # response =>
             srv' = "Listening" /\ response'.sent]_vars

(* C20 witness: the timeout expired on a call that carried an id; the error *)
(* -32603 was written with that id and the dispatcher is back at the read.  *)
C20_Witness ==
    /\ srv = "Listening"
    /\ ValidAnalyzerCall(request)
    /\ spawned
    /\ ~completed.ran
    /\ request.id = "id1"
    /\ response = Error("id1", INTERNAL_ERROR, "str(e)")

(* C21: the recovery path of the failure message.  A run that finds the     *)
(* archive placed by hand at the staging path installs from it even when    *)
(* every mirror fails: while it is in the download stage with that archive  *)
(* in place, a mirror that fails neither overwrites or removes the archive  *)
(* nor ends the run in Failed.                                              *)
C21_ManualArchiveUsed ==
    [][(pc = "Downloading" /\ zipFile = ManualArchive
        /\ pc' \in {"Downloading", "Failed"}) =>
          /\ pc' # "Failed"
          /\ zipFile' = ManualArchive]_vars

====
